---- MODULE Spec2Model ----
(***************************************************************************)
(* Model of musicfig: the polling loop (musicfig/main.py MainLoop), the    *)
(* Dimensions pad driver (musicfig/lego.py), the tag manager and store     *)
(* (musicfig/nfc_tag.py) and the plugin dispatch (musicfig/plugins/core.py)*)
(*                                                                         *)
(* Spec         the loop against the BaseDimensions interface:             *)
(*              get_tag_event may return None, return an event, or raise   *)
(*              USBError.                                                  *)
(* SpecReal     the program as init_app wires it without USE_MOCK_PAD: the *)
(*              loop bound to the real driver Dimensions, whose            *)
(*              get_tag_event is computed from what dev.read does, next to *)
(*              the web thread that deletes tags.                          *)
(* SpecRealFair the loop of SpecReal, its thread being scheduled fairly.   *)
(* SpecManager  the calls of NFCTagManager, in any order.                  *)
(* SpecDispatch one tag event delivered to one listener of any plugin, a   *)
(*              plugin without TAG_CLASS included, and one handler         *)
(*              response delivered to MainLoop.                            *)
(* SpecDriver   the three colour methods of Dimensions, called with any    *)
(*              parameters, and the messages send_command writes.          *)
(* SpecDecode   Dimensions.get_tag_event, called with any inbound frame.   *)
(* SpecFake     the simulated driver FakeDimensions, polled on its own.    *)
(* SpecInit     init_app (musicfig/__init__.py), statement by statement,   *)
(*              followed by the loop it starts.                            *)
(* SpecSpotify  the tag listeners of SpotifyClient                         *)
(*              (musicfig/plugins/spotify.py), called with any events.     *)
(* SpecWeb      the loop next to the request handlers of web/spotify.py.   *)
(***************************************************************************)
EXTENDS Integers, Sequences, FiniteSets, TLC

\* ------------------------------------------------------------------ bounds
MaxInstances == 2
MaxPad == 2
MaxEmitted == 4

\* --------------------------------------------------------------- constants
USB_ERROR_THRESHOLD == 5
ALL_PAD == 0
FRAME_LEN == 32
EVENT_MARKER == 86

RED == <<100, 0, 0>>
YELLOW == <<100, 100, 0>>
PURPLE == <<100, 0, 100>>
DIM == <<20, 20, 20>>
GREEN == <<0, 100, 0>>
OFF == <<0, 0, 0>>
BLUE == <<0, 0, 100>>
PINK == <<100, 75, 79>>

Pads == 1..MaxPad

\* 7-byte tag UIDs the pad can report
UIDs == { <<0, 0, 0, 222, 173, 190, 239>>, <<4, 17, 34, 51, 68, 85, 102>> }

\* ------------------------------------------------------- identifier codec
\* binascii.hexlify: two hex digits (0..15) per byte, high nibble first
RECURSIVE hexlify(_)
hexlify(bytes) ==
  IF bytes = <<>> THEN <<>>
  ELSE <<bytes[1] \div 16, bytes[1] % 16>> \o hexlify(Tail(bytes))

SixZeros == <<0, 0, 0, 0, 0, 0>>

\* str.replace('000000', ''): every non-overlapping occurrence, left to right
RECURSIVE replace_000000(_)
replace_000000(s) ==
  IF Len(s) < 6 THEN s
  ELSE IF SubSeq(s, 1, 6) = SixZeros THEN replace_000000(SubSeq(s, 7, Len(s)))
  ELSE <<s[1]>> \o replace_000000(Tail(s))

Ids == { replace_000000(hexlify(u)) : u \in UIDs }

\* ------------------------------------------------------------- tag events
\* DimensionsTagEvent, plus the two non-event values of the local variable
\* tag_event of MainLoop.run: not yet assigned, and None
DimensionsTagEvent(removed, pad, identifier) ==
  [kind |-> "event", was_removed |-> removed, pad_num |-> pad, identifier |-> identifier]
TagNone == [kind |-> "none", was_removed |-> FALSE, pad_num |-> 0, identifier |-> <<>>]
TagUnbound == [kind |-> "unbound", was_removed |-> FALSE, pad_num |-> 0, identifier |-> <<>>]

TagEvents == { DimensionsTagEvent(r, p, i) : r \in BOOLEAN, p \in Pads, i \in Ids }

\* what a call of get_tag_event can do
Returned(v) == [raised |-> FALSE, value |-> v]
RaisedUSBError == [raised |-> TRUE, value |-> TagNone]
PollOutcomes == { Returned(TagNone), RaisedUSBError } \cup { Returned(e) : e \in TagEvents }

\* ------------------------------------------------------------- real driver
\* what dev.read(0x81, 32, timeout=10) can do
ReadTimeout == [kind |-> "USBTimeoutError", data |-> <<>>]
ReadError == [kind |-> "USBError", data |-> <<>>]
ReadData(bytes) == [kind |-> "data", data |-> bytes]

Zeros(n) == [i \in 1..n |-> 0]
Frame(b0, pad, rm, uid) == <<b0, 11, pad, 0, 0, rm>> \o uid \o Zeros(FRAME_LEN - 13)
Frames == { Frame(b0, p, rm, u) : b0 \in {EVENT_MARKER, 85}, p \in Pads, rm \in {0, 1}, u \in UIDs }
DeviceReads == { ReadTimeout, ReadError, ReadData(<<>>) } \cup { ReadData(f) : f \in Frames }

\* the frames and UIDs get_tag_event is called with on its own: any marker,
\* pad byte and removal byte, UIDs with runs of zero digits at the start, in
\* the middle, across a byte boundary and throughout
DecodeUIDs ==
  UIDs \cup { <<4, 0, 0, 0, 17, 34, 51>>, <<16, 0, 0, 0, 1, 34, 51>>, <<0, 0, 0, 0, 0, 0, 0>>,
             <<0, 0, 0, 0, 0, 0, 1>> }
DecodeFrames ==
  { Frame(b0, p, rm, u) : b0 \in {EVENT_MARKER, 85, 0}, p \in 0..3, rm \in {0, 1, 255},
                          u \in DecodeUIDs }
DecodeReads == { ReadTimeout, ReadError, ReadData(<<>>) } \cup { ReadData(f) : f \in DecodeFrames }

\* get_tag_event, were it to take only byte 5 = 1 for a removal
Dimensions_get_tag_event_removed_is_one(rd) ==
  IF rd.kind = "USBTimeoutError" THEN Returned(TagNone)
  ELSE IF rd.kind # "data" THEN Returned(TagNone)
  ELSE IF rd.data = <<>> THEN Returned(TagNone)
  ELSE IF rd.data[1] # EVENT_MARKER THEN Returned(TagNone)
  ELSE Returned(DimensionsTagEvent(rd.data[6] = 1, rd.data[3],
                                   replace_000000(hexlify(SubSeq(rd.data, 7, 13)))))

\* Dimensions.get_tag_event
Dimensions_get_tag_event(rd) ==
  IF rd.kind = "USBTimeoutError" THEN Returned(TagNone)
  ELSE IF rd.kind # "data" THEN Returned(TagNone)
  ELSE IF rd.data = <<>> THEN Returned(TagNone)
  ELSE IF rd.data[1] # EVENT_MARKER THEN Returned(TagNone)
  ELSE Returned(DimensionsTagEvent(rd.data[6] # 0, rd.data[3],
                                   replace_000000(hexlify(SubSeq(rd.data, 7, 13)))))

\* ------------------------------------------------------- driver interface
change_pad_color(pad, colour) ==
  [op |-> "change_pad_color", pad |-> pad, t1 |-> 0, t2 |-> 0, pulse_count |-> 0, colour |-> colour]
fade_pad_color(pad, pulse_time, pulse_count, colour) ==
  [op |-> "fade_pad_color", pad |-> pad, t1 |-> pulse_time, t2 |-> 0,
   pulse_count |-> pulse_count, colour |-> colour]
flash_pad_color(pad, on_length, off_length, pulse_count, colour) ==
  [op |-> "flash_pad_color", pad |-> pad, t1 |-> on_length, t2 |-> off_length,
   pulse_count |-> pulse_count, colour |-> colour]

\* the checksum loop of send_command: the running sum is reduced by 256 at
\* most once per word
RECURSIVE checksum_from(_, _)
checksum_from(checksum, command) ==
  IF command = <<>> THEN checksum
  ELSE LET c == checksum + Head(command)
       IN checksum_from(IF c >= 256 THEN c - 256 ELSE c, Tail(command))

\* send_command, were the message not padded
send_command_unpadded(command) == command \o << checksum_from(0, command) >>

\* Dimensions.send_command: the checksum is appended and the message is padded
\* to 32 bytes
send_command(command) ==
  LET message == command \o << checksum_from(0, command) >>
  IN IF Len(message) < FRAME_LEN THEN message \o Zeros(FRAME_LEN - Len(message)) ELSE message

\* the byte list Dimensions.change_pad_color, fade_pad_color and flash_pad_color
\* hand to send_command; flash_pad_color passes colour[1] twice
command_bytes(c) ==
  CASE c.op = "change_pad_color" ->
         << 85, 6, 192, 2, c.pad, c.colour[1], c.colour[2], c.colour[3] >>
    [] c.op = "fade_pad_color" ->
         << 85, 8, 194, 15, c.pad, c.t1, c.pulse_count, c.colour[1], c.colour[2], c.colour[3] >>
    [] c.op = "flash_pad_color" ->
         << 85, 9, 195, 3, c.pad, c.t1, c.t2, c.pulse_count, c.colour[1], c.colour[2], c.colour[2] >>

\* the messages handed to dev.write for a sequence of driver calls
dev_write(cs) == [k \in DOMAIN cs |-> send_command(command_bytes(cs[k]))]

\* ----------------------------------------------------------- tag registry
UnknownTag == "UnknownTag"
LegacyTag == "LegacyTag"
WebhookTag == "WebhookTag"
SlackTag == "SlackTag"
TwinklyTag == "TwinklyTag"

RegisteredTypes == {"webhook", "slack", "twinkly"}
TAG_REGISTRY_MAP == [t \in RegisteredTypes |->
  CASE t = "webhook" -> WebhookTag
    [] t = "slack" -> SlackTag
    [] t = "twinkly" -> TwinklyTag]

required_attributes(cls) ==
  CASE cls = WebhookTag -> {"url"}
    [] cls = SlackTag -> {"text"}
    [] cls = TwinklyTag -> {"pattern"}
    [] OTHER -> {}

\* persisted records (NFCTagModel rows); present = FALSE is "no row"
NoRecord == [present |-> FALSE, type |-> "", attr |-> {}]
Record(type, attr) == [present |-> TRUE, type |-> type, attr |-> attr]

\* the tables the program is started on: a well-formed webhook record and an
\* identifier without record; a webhook record lacking its url and a record
\* whose type no class is registered for; a well-formed twinkly record
IdList == << replace_000000(hexlify(<<0, 0, 0, 222, 173, 190, 239>>)),
            replace_000000(hexlify(<<4, 17, 34, 51, 68, 85, 102>>)) >>
InitialStores == {
  [i \in Ids |-> IF i = IdList[1] THEN Record("webhook", {"url"}) ELSE NoRecord],
  [i \in Ids |-> IF i = IdList[1] THEN Record("webhook", {}) ELSE Record("spotify", {})],
  [i \in Ids |-> IF i = IdList[1] THEN Record("twinkly", {"pattern"}) ELSE NoRecord] }

\* the value of the name `id` inside nfc_tag_from_model: the builtin function
BuiltinId == <<-1>>
\* None passed where an identifier, or a tag type, is expected
NoneId == <<-2>>
NoneType == "None"

\* an NFCTag instance; for_id is the identifier get_nfc_tag_by_id was asked for
NFCTag(cls, identifier, for_id) == [cls |-> cls, identifier |-> identifier, for_id |-> for_id]
NoTag == NFCTag("", <<>>, <<>>)

Built(tag) == [raised |-> FALSE, tag |-> tag]
RaisedKeyError == [raised |-> TRUE, tag |-> NoTag]

\* NFCTag.__init__, were it not to call _verify_attributes
NFCTag_init_unverified(cls, identifier, attributes, for_id) ==
  Built(NFCTag(cls, identifier, for_id))

\* NFCTag.__init__ / _verify_attributes
NFCTag_init(cls, identifier, attributes, for_id) ==
  IF required_attributes(cls) \subseteq attributes
  THEN Built(NFCTag(cls, identifier, for_id))
  ELSE RaisedKeyError

\* nfc_tag_from_model, were the class for an unregistered type UnknownTag
nfc_tag_from_model_default_unknown(model, for_id) ==
  LET nfc_tag_class == IF model.type \in DOMAIN TAG_REGISTRY_MAP
                       THEN TAG_REGISTRY_MAP[model.type] ELSE UnknownTag
  IN NFCTag_init(nfc_tag_class, BuiltinId, model.attr, for_id)

\* NFCTagManager.nfc_tag_from_model
nfc_tag_from_model(model, for_id) ==
  LET nfc_tag_class == IF model.type \in DOMAIN TAG_REGISTRY_MAP
                       THEN TAG_REGISTRY_MAP[model.type] ELSE LegacyTag
  IN NFCTag_init(nfc_tag_class, BuiltinId, model.attr, for_id)

\* NFCTagStore.get_nfc_tag_by_id
NFCTagStore_get_nfc_tag_by_id(st, id) == st[id]

\* NFCTagManager.get_nfc_tag_by_id
get_nfc_tag_by_id(st, id) ==
  LET nfc_tag_model == NFCTagStore_get_nfc_tag_by_id(st, id)
  IN IF ~nfc_tag_model.present THEN NFCTag_init(UnknownTag, id, {}, id)
     ELSE nfc_tag_from_model(nfc_tag_model, id)

\* delete_nfc_tag_by_id, were it to return without deleting the row
NFCTagStore_delete_without_commit(st, id) == [raised |-> ~st[id].present, store |-> st]

\* NFCTagStore.delete_nfc_tag_by_id: db.session.delete(None) raises when no row matches
NFCTagStore_delete_nfc_tag_by_id(st, id) ==
  IF st[id].present
  THEN [raised |-> FALSE, store |-> [st EXCEPT ![id] = NoRecord]]
  ELSE [raised |-> TRUE, store |-> st]

\* delete_nfc_tag_by_id, were it to pass None on to the store, whose
\* db.session.delete(None) raises
delete_nfc_tag_by_id_unguarded(st, id) ==
  IF id = NoneId THEN [raised |-> TRUE, store |-> st]
  ELSE NFCTagStore_delete_nfc_tag_by_id(st, id)

\* NFCTagManager.delete_nfc_tag_by_id
delete_nfc_tag_by_id(st, id) ==
  IF id = NoneId THEN [raised |-> FALSE, store |-> st]
  ELSE NFCTagStore_delete_nfc_tag_by_id(st, id)

\* the attributes argument of create_nfc_tag: None, a dict, or a JSON string
\* (web/tags.py create_tag passes the form field, a string); keys are the keys
\* of the dict or of the object the string encodes
Attributes(form, keys) == [form |-> form, keys |-> keys]
AttrNone == Attributes("none", {})
CreateAttributes ==
  { AttrNone } \cup { Attributes(f, k) : f \in {"dict", "json"}, k \in {{}, {"url"}} }
CreateTypes == {"webhook", "spotify", NoneType}

Created(raised, st, tag) == [raised |-> raised, store |-> st, tag |-> tag]

\* NFCTagStore.create_nfc_tag: the commit fails on a second row with the same
\* primary key and on attr = None (nullable=False)
NFCTagStore_create_nfc_tag(st, id, type, attributes) ==
  IF st[id].present \/ attributes.form = "none"
  THEN [raised |-> TRUE, store |-> st]
  ELSE [raised |-> FALSE, store |-> [st EXCEPT ![id] = Record(type, attributes.keys)]]

\* create_nfc_tag, were it to check the type but not that id and type are given
create_nfc_tag_unchecked_none(st, id, tag_type, attributes) ==
  IF tag_type \notin DOMAIN TAG_REGISTRY_MAP /\ tag_type # NoneType
  THEN Created("ArgumentError", st, NoTag)
  ELSE IF id = NoneId \/ tag_type = NoneType
  THEN Created("IntegrityError", st, NoTag)
  ELSE IF attributes.form = "dict" THEN Created("TypeError", st, NoTag)
  ELSE LET w == NFCTagStore_create_nfc_tag(st, id, tag_type, attributes)
       IN IF w.raised THEN Created("IntegrityError", st, NoTag)
          ELSE LET b == nfc_tag_from_model(w.store[id], id)
               IN Created(IF b.raised THEN "KeyError" ELSE "none", w.store, b.tag)

\* NFCTagManager.create_nfc_tag: json.dumps(dict) is given the type dict, not
\* the attributes, and raises TypeError
create_nfc_tag(st, id, tag_type, attributes) ==
  IF id = NoneId \/ tag_type = NoneType THEN Created("ArgumentError", st, NoTag)
  ELSE IF tag_type \notin DOMAIN TAG_REGISTRY_MAP THEN Created("ArgumentError", st, NoTag)
  ELSE IF attributes.form = "dict" THEN Created("TypeError", st, NoTag)
  ELSE LET w == NFCTagStore_create_nfc_tag(st, id, tag_type, attributes)
       IN IF w.raised THEN Created("IntegrityError", st, NoTag)
          ELSE LET b == nfc_tag_from_model(w.store[id], id)
               IN Created(IF b.raised THEN "KeyError" ELSE "none", w.store, b.tag)

\* ------------------------------------------------------------- bus, plugins
\* the tag_class of a plugin that declares no TAG_CLASS
NoClass == "None"

\* registered_plugins that subscribe a framework wrapper, in subscription order;
\* base is the module its BasePlugin comes from
Plugins == <<
  [name |-> "unregistered_tag_plugin", tag_class |-> UnknownTag, success_pad_color |-> YELLOW,
   base |-> "core"],
  [name |-> "twinkly_plugin", tag_class |-> TwinklyTag, success_pad_color |-> PURPLE,
   base |-> "base"],
  [name |-> "webhook_plugin", tag_class |-> WebhookTag, success_pad_color |-> PURPLE,
   base |-> "core"] >>

\* a BasePlugin subclass that declares no TAG_CLASS
UntypedPlugin ==
  [name |-> "untyped_plugin", tag_class |-> NoClass, success_pad_color |-> PURPLE, base |-> "core"]

\* what the service a hook talks to does: it answers, it answers with an
\* error, or the call raises
ExternalOutcomes == {"ok", "fails", "raises"}
HookChoices == [1..Len(Plugins) -> ExternalOutcomes]
NoHooks == [k \in 1..Len(Plugins) |-> "ok"]

\* what a hook does: it returns ("ok") or raises the named exception
HookOutcomes == {"ok", "NFCTagOperationError", "AttributeError", "Exception"}

\* the exceptions `except Exception` catches; PluginError extends BaseException
ExceptionClasses == {"KeyError", "TypeError", "AttributeError", "ValueError", "Exception",
                     "NFCTagOperationError"}

\* PostMixin.post_json: non-200 is a ValueError, requests.post may raise itself
post_json(ext) ==
  IF ext = "ok" THEN "ok" ELSE IF ext = "fails" THEN "ValueError" ELSE "Exception"

\* WebhookPlugin._on_tag_added / _on_tag_removed: the handler of a failed POST
\* evaluates e.__name__ on the exception instance, which has no such attribute
WebhookPlugin_on_tag(ev, ext) ==
  IF post_json(ext) = "ok" THEN "ok" ELSE "AttributeError"

\* UnregisteredTagPlugin._on_tag_added (socketio.emit), BasePlugin._on_tag_removed (pass)
UnregisteredTagPlugin_on_tag(ev, ext) ==
  IF ~ev.was_removed /\ ext = "raises" THEN "Exception" ELSE "ok"

\* TwinklyPlugin._start_pattern: it returns when the pattern file is missing
\* ("ok"), _try_network_operation turns an API error into NFCTagOperationError
\* ("fails"), and with the API answering _fps_to_ms_per_frame reads self.fps,
\* which the plugin does not have ("raises")
TwinklyPlugin_start_pattern(ext) ==
  IF ext = "ok" THEN "ok"
  ELSE IF ext = "fails" THEN "NFCTagOperationError" ELSE "AttributeError"

\* the hook of plugin p run for ev
work_operation(p, ev, ext) ==
  CASE p.name = "webhook_plugin" -> WebhookPlugin_on_tag(ev, ext)
    [] p.name = "twinkly_plugin" -> TwinklyPlugin_start_pattern(ext)
    [] p.name = "unregistered_tag_plugin" -> UnregisteredTagPlugin_on_tag(ev, ext)
    [] OTHER -> IF ext = "ok" THEN "ok"
                ELSE IF ext = "fails" THEN "NFCTagOperationError" ELSE "Exception"

NoColor == <<>>
Message(topic, ev, color) == [topic |-> topic, tag_event |-> ev, color |-> color]
\* what the listener of plugin p, called with tag, did: the hook outcome ("-":
\* hook not invoked), the handler responses it published, the exception that
\* left it ("none": it returned); ext is what the hook's service did
Delivered(p, tag, hook, responses, raised) ==
  [plugin |-> p.name, tag_cls |-> tag.cls, ext |-> "-", hook |-> hook, responses |-> responses,
   raised |-> raised]

isinstance(tag, tag_class) == tag.cls = tag_class

\* BasePlugin.dispatch_*_event
dispatch_add_error_event(p, ev) == Message("handler_response.add.error", ev, NoColor)
dispatch_add_success_event(p, ev) == Message("handler_response.add.success", ev, p.success_pad_color)
dispatch_remove_success_event(p, ev) == Message("handler_response.remove.success", ev, NoColor)
dispatch_remove_error_event(p, ev) == Message("handler_response.remove.error", ev, NoColor)

\* _on_tag_event, were it to leave out the type filter
on_tag_event_unfiltered(p, ev, tag, outcome) ==
  IF outcome = "NFCTagOperationError"
  THEN Delivered(p, tag, outcome, << IF ev.was_removed THEN dispatch_remove_error_event(p, ev)
                             ELSE dispatch_add_error_event(p, ev) >>, "none")
  ELSE IF outcome # "ok" THEN Delivered(p, tag, outcome, <<>>, outcome)
  ELSE Delivered(p, tag, outcome, << IF ev.was_removed THEN dispatch_remove_success_event(p, ev)
                             ELSE dispatch_add_success_event(p, ev) >>, "none")

\* plugins/core.py BasePlugin._on_tag_event, as called by on_tag_added /
\* on_tag_removed; isinstance(nfc_tag, None) raises TypeError
on_tag_event(p, ev, tag, outcome) ==
  IF p.tag_class = NoClass THEN Delivered(p, tag, "-", <<>>, "TypeError")
  ELSE IF ~isinstance(tag, p.tag_class) THEN Delivered(p, tag, "-", <<>>, "none")
  ELSE IF outcome = "NFCTagOperationError"
       THEN Delivered(p, tag, outcome, << IF ev.was_removed THEN dispatch_remove_error_event(p, ev)
                                  ELSE dispatch_add_error_event(p, ev) >>, "none")
  ELSE IF outcome # "ok" THEN Delivered(p, tag, outcome, <<>>, outcome)
  ELSE Delivered(p, tag, outcome, << IF ev.was_removed THEN dispatch_remove_success_event(p, ev)
                             ELSE dispatch_add_success_event(p, ev) >>, "none")

\* TwinklyPlugin.on_tag_added, were it not to return after the error event
TwinklyPlugin_on_tag_event_no_return(p, ev, tag, outcome) ==
  IF ~isinstance(tag, TwinklyTag) THEN Delivered(p, tag, "-", <<>>, "none")
  ELSE IF ev.was_removed
       THEN Delivered(p, tag, "-", << dispatch_remove_success_event(p, ev) >>, "none")
  ELSE IF outcome = "NFCTagOperationError"
       THEN Delivered(p, tag, outcome, << dispatch_add_error_event(p, ev),
                                          dispatch_add_success_event(p, ev) >>, "none")
  ELSE IF outcome # "ok" THEN Delivered(p, tag, outcome, <<>>, outcome)
  ELSE Delivered(p, tag, outcome, << dispatch_add_success_event(p, ev) >>, "none")

\* TwinklyPlugin.on_tag_added / on_tag_removed (plugins/base.py BasePlugin):
\* a removal runs no hook
TwinklyPlugin_on_tag_event(p, ev, tag, outcome) ==
  IF ~isinstance(tag, TwinklyTag) THEN Delivered(p, tag, "-", <<>>, "none")
  ELSE IF ev.was_removed THEN Delivered(p, tag, "-", << dispatch_remove_success_event(p, ev) >>, "none")
  ELSE IF outcome = "NFCTagOperationError"
       THEN Delivered(p, tag, outcome, << dispatch_add_error_event(p, ev) >>, "none")
  ELSE IF outcome # "ok" THEN Delivered(p, tag, outcome, <<>>, outcome)
  ELSE Delivered(p, tag, outcome, << dispatch_add_success_event(p, ev) >>, "none")

\* the listener, were it to hand the event to a thread of its own and return
listener_on_own_thread(p, ev, tag, ext) == Delivered(p, tag, "-", <<>>, "none")

\* the listener plugin p subscribed to tag.added / tag.removed, the service
\* its hook talks to doing ext
listener(p, ev, tag, ext) ==
  LET d == IF p.base = "core" THEN on_tag_event(p, ev, tag, work_operation(p, ev, ext))
           ELSE TwinklyPlugin_on_tag_event(p, ev, tag, work_operation(p, ev, ext))
  IN [d EXCEPT !.ext = IF d.hook = "-" THEN "-" ELSE ext]

\* pub.sendMessage on tag.added / tag.removed: listeners are called in turn, an
\* exception leaving a listener ends the delivery and reaches the publisher;
\* log holds what each listener called did
Sent(log, responses, raised) == [log |-> log, responses |-> responses, raised |-> raised]

RECURSIVE sendMessage(_, _, _, _)
sendMessage(k, ev, tag, hooks) ==
  IF k > Len(Plugins) THEN Sent(<<>>, <<>>, "none")
  ELSE LET d == listener(Plugins[k], ev, tag, hooks[k])
       IN IF d.raised # "none" THEN Sent(<< d >>, d.responses, d.raised)
          ELSE LET rest == sendMessage(k + 1, ev, tag, hooks)
               IN Sent(<< d >> \o rest.log, d.responses \o rest.responses, rest.raised)

\* ------------------------------------------------------------------ MainLoop
get_idle_color == DIM
get_error_color == RED

\* error_flash, were it to flash every pad instead of the pad it is given
error_flash_all_pads(pad_num) == flash_pad_color(ALL_PAD, 8, 8, 4, get_error_color)

\* MainLoop.error_flash
error_flash(pad_num) == flash_pad_color(pad_num, 8, 8, 4, get_error_color)

\* the handlers, were on_tag_added_error not to flash
on_handler_response_add_error_ignored(m) ==
  CASE m.topic = "handler_response.add.error" -> <<>>
    [] m.topic = "handler_response.add.success" ->
         IF m.color # NoColor
         THEN << fade_pad_color(m.tag_event.pad_num, 10, 1, m.color) >>
         ELSE <<>>
    [] m.topic = "handler_response.remove.success" ->
         << fade_pad_color(m.tag_event.pad_num, 10, 1, get_idle_color) >>
    [] m.topic = "handler_response.remove.error" -> << error_flash(m.tag_event.pad_num) >>

\* the handlers, were on_tag_added_success to fade to the default active colour
\* when it is given no colour
on_handler_response_default_colour(m) ==
  CASE m.topic = "handler_response.add.error" -> << error_flash(m.tag_event.pad_num) >>
    [] m.topic = "handler_response.add.success" ->
         << fade_pad_color(m.tag_event.pad_num, 10, 1, IF m.color # NoColor THEN m.color ELSE BLUE) >>
    [] m.topic = "handler_response.remove.success" ->
         << fade_pad_color(m.tag_event.pad_num, 10, 1, get_idle_color) >>
    [] m.topic = "handler_response.remove.error" -> << error_flash(m.tag_event.pad_num) >>

\* the handlers, were on_tag_removed_success to fade every pad
on_handler_response_remove_all_pads(m) ==
  CASE m.topic = "handler_response.add.error" -> << error_flash(m.tag_event.pad_num) >>
    [] m.topic = "handler_response.add.success" ->
         IF m.color # NoColor
         THEN << fade_pad_color(m.tag_event.pad_num, 10, 1, m.color) >>
         ELSE <<>>
    [] m.topic = "handler_response.remove.success" ->
         << fade_pad_color(ALL_PAD, 10, 1, get_idle_color) >>
    [] m.topic = "handler_response.remove.error" -> << error_flash(m.tag_event.pad_num) >>

\* MainLoop.on_tag_added_error, on_tag_added_success, on_tag_removed_success,
\* on_tag_removed_error: the driver calls one handler-response message causes
on_handler_response(m) ==
  CASE m.topic = "handler_response.add.error" -> << error_flash(m.tag_event.pad_num) >>
    [] m.topic = "handler_response.add.success" ->
         IF m.color # NoColor
         THEN << fade_pad_color(m.tag_event.pad_num, 10, 1, m.color) >>
         ELSE <<>>
    [] m.topic = "handler_response.remove.success" ->
         << fade_pad_color(m.tag_event.pad_num, 10, 1, get_idle_color) >>
    [] m.topic = "handler_response.remove.error" -> << error_flash(m.tag_event.pad_num) >>

RECURSIVE on_handler_responses(_)
on_handler_responses(ms) ==
  IF ms = <<>> THEN <<>> ELSE on_handler_response(Head(ms)) \o on_handler_responses(Tail(ms))

\* the handler `except Exception` of MainLoop.run, were it missing
loop_catches_nothing(exc) == FALSE

\* `except Exception` in MainLoop.run: whether it catches exc
loop_catches(exc) == exc \in ExceptionClasses

\* MainLoop.update_active_tags: a set of NFCTag objects, compared by object identity
update_active_tags(active, ev, ref) ==
  IF ev.was_removed THEN active \ {ref} ELSE active \cup {ref}

\* MainLoop.publish_tag_event: the message put on the bus
publish_tag_event(ev, ref, active) ==
  [topic |-> IF ev.was_removed THEN "tag.removed" ELSE "tag.added",
   tag_event |-> ev, nfc_tag |-> ref, active_tags |-> active]


\* ---------------------------------------------------------------- application
SpotifyTag == "SpotifyTag"

\* __init__.py registered_plugins: the plugin instances init_app initialises, in
\* order, each with the tag class it registers
registered_plugins == <<
  [name |-> "unregistered_tag_plugin", tag_class |-> UnknownTag],
  [name |-> "spotify_client", tag_class |-> SpotifyTag],
  [name |-> "twinkly_plugin", tag_class |-> TwinklyTag],
  [name |-> "webhook_plugin", tag_class |-> WebhookTag] >>

PluginInits == [k \in 1..Len(registered_plugins) |-> [op |-> "plugin.init_app", plugin |-> k]]

\* init_app, were it to start the loop thread before it initialises the plugins
init_app_steps_start_first ==
  << [op |-> "lego_thread.init_app", plugin |-> 0], [op |-> "lego_thread.start", plugin |-> 0] >>
    \o PluginInits

\* the statements of init_app that act on the loop, the bus and the registry,
\* in program order
init_app_steps ==
  << [op |-> "lego_thread.init_app", plugin |-> 0] >>
    \o PluginInits
    \o << [op |-> "lego_thread.start", plugin |-> 0] >>

\* pc: the statement of init_app_steps to run next; failed: init_app raised;
\* started: lego_thread.start() was called; imported: what NFCTagManager.__init__
\* did about the tag file; listeners: the subscribers of tag.added/tag.removed,
\* in subscription order; registry: the tag classes in the type registry
App(pc, failed, started, imported, listeners, registry) ==
  [pc |-> pc, failed |-> failed, started |-> started, imported |-> imported,
   listeners |-> listeners, registry |-> registry]

\* the module __init__ loaded: the function l is subscribed, the registry holds
\* the classes of TAG_REGISTRY_MAP
AppLoaded ==
  App(1, FALSE, FALSE, "pending", << "l" >>,
      { TAG_REGISTRY_MAP[t] : t \in DOMAIN TAG_REGISTRY_MAP })

\* init_app returned
AppReady ==
  App(Len(init_app_steps) + 1, FALSE, TRUE, "skipped",
      << "l" >> \o [k \in 1..Len(registered_plugins) |-> registered_plugins[k].name],
      { TAG_REGISTRY_MAP[t] : t \in DOMAIN TAG_REGISTRY_MAP }
        \cup { registered_plugins[k].tag_class : k \in 1..Len(registered_plugins) })

\* register_tag_type: adds the class to the registry, an entry already there
\* being overwritten
register_tag_type(registry, cls) == registry \cup {cls}

\* the tag-definition file NFC_TAG_FILE: the records it defines, by identifier
NoFile == [i \in Ids |-> NoRecord]
TagFiles == { NoFile, [i \in Ids |-> IF i = IdList[2] THEN Record("webhook", {"url"}) ELSE NoRecord] }

\* NFCTagManager.should_import_file
should_import_file(file, newer) == file # NoFile /\ newer

\* NFCTagStore.populate_from_dict: one row is added per identifier of the file
\* and the commit fails on a row whose identifier the table already holds
NFCTagStore_populate_from_dict(st, file) ==
  IF \E i \in Ids : file[i].present /\ st[i].present
  THEN [raised |-> TRUE, store |-> st]
  ELSE [raised |-> FALSE, store |-> [i \in Ids |-> IF file[i].present THEN file[i] ELSE st[i]]]

\* the message init_usb writes to the pad
INIT_MESSAGE ==
  << 85, 15, 176, 1, 40, 99, 41, 32, 76, 69, 71, 79, 32, 50, 48, 49, 52, 247 >> \o Zeros(14)

\* SpotifyClient: current_user_id, user_token_map (per user: no token, a fresh
\* one, one about to expire), active_tag and paused_tag (0: None), and
\* playback: the playback methods the last listener call made
NoUser == "None"
SpotifyUsers == {"local", "u1"}
Tokens == {"fresh", "expiring"}
SpotifyClient_init ==
  [current_user_id |-> NoUser, user_token_map |-> [u \in SpotifyUsers |-> "none"],
   active_tag |-> 0, paused_tag |-> 0, playback |-> <<>>]

\* SpotifyClient.set_current_user_id
set_current_user_id(sp, user) == [sp EXCEPT !.current_user_id = user]

\* SpotifyClient.get_user_from_token
get_user_from_token(sp, user, token) == [sp EXCEPT !.user_token_map[user] = token]

\* SpotifyClient.get_current_user_token(refresh=True), credentials.refresh
\* answering (refreshed) or raising HTTPError
get_current_user_token(sp, refreshed) ==
  LET token == IF sp.current_user_id = NoUser THEN "none"
               ELSE sp.user_token_map[sp.current_user_id]
  IN IF token = "none" THEN sp
     ELSE IF token = "expiring" /\ refreshed
     THEN [sp EXCEPT !.user_token_map[sp.current_user_id] = "fresh"]
     ELSE sp

\* ------------------------------------------------------ simulated driver
\* the random draws of one call of FakeDimensions.get_tag_event. seed: 1, or 2
\* for any of the values above 1; index: randrange(len(self.tags)), used when
\* a tag is popped; tag: the 14 hex characters joined
FakeDraws ==
  [seed : 1..2, other_seed : 1..2, index : 0..(MaxEmitted - 1), pad : 1..3, tag : Ids]
DrawName(d) ==
  IF d.seed > 1 THEN "nothing" ELSE IF d.other_seed % 2 = 0 THEN "remove" ELSE "add"

\* list.pop(i), i counted from 0
pop(l, i) == SubSeq(l, 1, i) \o SubSeq(l, i + 2, Len(l))

\* get_tag_event, were the tag it returns as removed left in self.tags
FakeDimensions_get_tag_event_keeps_tag(ts, d) ==
  IF d.seed > 1 THEN [tags |-> ts, value |-> TagNone]
  ELSE IF d.other_seed % 2 = 0
  THEN IF Len(ts) > 0
       THEN [tags |-> ts,
             value |-> DimensionsTagEvent(TRUE, ts[d.index + 1][2], ts[d.index + 1][1])]
       ELSE [tags |-> ts, value |-> TagNone]
  ELSE [tags |-> Append(ts, << d.tag, d.pad >>),
        value |-> DimensionsTagEvent(FALSE, d.pad, d.tag)]

\* FakeDimensions.get_tag_event: self.tags afterwards and the value returned
FakeDimensions_get_tag_event(ts, d) ==
  IF d.seed > 1 THEN [tags |-> ts, value |-> TagNone]
  ELSE IF d.other_seed % 2 = 0
  THEN IF Len(ts) > 0
       THEN [tags |-> pop(ts, d.index),
             value |-> DimensionsTagEvent(TRUE, ts[d.index + 1][2], ts[d.index + 1][1])]
       ELSE [tags |-> ts, value |-> TagNone]
  ELSE [tags |-> Append(ts, << d.tag, d.pad >>),
        value |-> DimensionsTagEvent(FALSE, d.pad, d.tag)]

\* the SpotifyTag objects the listeners are called with, compared by `is`:
\* objects 1 and 2 were built for the first identifier, object 3 for the second
CIRCLE_PAD == 1
SpotifyObjects == 1..3
SpotifyIdentifier(o) == IF o = 3 THEN IdList[2] ELSE IdList[1]

\* SpotifyClient.start_playback_from_tag
start_playback_from_tag(sp, nfc_tag) ==
  IF nfc_tag = sp.paused_tag
  THEN [sp EXCEPT !.playback = << "resume" >>, !.active_tag = nfc_tag]
  ELSE [sp EXCEPT !.playback = << "spotcast" >>, !.paused_tag = 0, !.active_tag = nfc_tag]

\* SpotifyClient.pause_playback_from_tag: a tag that is not the active one is
\* logged and handled like the active one
pause_playback_from_tag(sp, nfc_tag) ==
  IF sp.active_tag = 0
  THEN [sp EXCEPT !.playback = <<>>, !.paused_tag = 0]
  ELSE [sp EXCEPT !.playback = << "pause" >>, !.paused_tag = sp.active_tag, !.active_tag = 0]

\* SpotifyClient.on_tag_added / on_tag_removed: the client afterwards and the
\* handler responses published
Handled(sp, responses) == [spotify |-> sp, responses |-> responses]
SpotifyClient_on_tag_added(sp, ev, cls, nfc_tag) ==
  IF cls # SpotifyTag THEN Handled([sp EXCEPT !.playback = <<>>], <<>>)
  ELSE IF ev.pad_num # CIRCLE_PAD
  THEN Handled([sp EXCEPT !.playback = <<>>],
               << Message("handler_response.add.error", ev, NoColor) >>)
  ELSE Handled(start_playback_from_tag(sp, nfc_tag),
               << Message("handler_response.add.success", ev, OFF) >>)
SpotifyClient_on_tag_removed(sp, ev, cls, nfc_tag) ==
  IF cls # SpotifyTag \/ ev.pad_num # CIRCLE_PAD THEN Handled([sp EXCEPT !.playback = <<>>], <<>>)
  ELSE Handled(pause_playback_from_tag(sp, nfc_tag),
               << Message("handler_response.remove.success", ev, NoColor) >>)

\* the parameters the driver is called with
DriverPads == 0..3
Ticks == {0, 8, 255}
Colours == { RED, GREEN, PINK }

\* ---------------------------------------------------------------------- state
VARIABLES
  loop_pc,              \* "Idle" (constructed), "Polling", "Stopped" (run returned), "Dead" (run raised)
  do_loop,              \* MainLoop.do_loop
  error_count,          \* MainLoop.error_count
  tag_event,            \* the local variable tag_event of MainLoop.run
  current_active_tags,  \* MainLoop.current_active_tags: references into heap
  heap,                 \* the NFCTag objects built so far; a reference is an index
  store,                \* the nfc_tags table
  device,               \* the pad: gone = unplugged, every dev.read fails from now on;
                        \* reads = the number of dev.read calls made so far, modulo 2
  calls,                \* driver calls made by the last step, in order
  published,            \* tag.added / tag.removed messages sent by the last step
  last,                 \* what the last step was and did
  dispatched,           \* what each listener called by the last step did, in call order
  written,              \* the messages handed to dev.write by the last step, in order
  app,                  \* what init_app has done: its position, the bus listeners, the registry
  spotify,              \* the state of the SpotifyClient the web handlers use
  tags,                 \* FakeDimensions.tags: the (tag, pad) pairs of the simulated driver
  emitted,              \* history: the events the simulated driver returned, in order
  interrupted,          \* history: some poll returned after an earlier poll raised USBError
  last_event,           \* history: per identifier, the kind of its last processed event
  deleted,              \* history: per identifier, its record was deleted and not created again
  prev_ref              \* history: per identifier, the tag last resolved since the last delete

vars == << loop_pc, do_loop, error_count, tag_event, current_active_tags, heap, store,
           device, calls, published, last, dispatched, written, app, spotify, tags, emitted,
           interrupted,
           last_event, deleted, prev_ref >>

\* op: the step; read, poll: what dev.read and get_tag_event did; ev: the event processed;
\* replay: ev was not polled by this step; resolved: the tag built for ev (0: none);
\* prev: the tag resolved for the same identifier before; raised: what failed;
\* threshold: this step's fault reached USB_ERROR_THRESHOLD; store_reads: table queries made
\* args: of a manager call, the tag type and attributes passed and the table before it
\* msg: of the delivery of a handler response, the message delivered
\* frame: of a call of get_tag_event on its own, the bytes dev.read returned
\* draw: of a poll of the simulated driver, what its random draws chose:
\*       "nothing" (seed > 1), "add" or "remove"
NoArgs == [tag_type |-> "", attributes |-> AttrNone, before |-> <<>>]
NoMessage == Message("", TagNone, NoColor)
Args(tag_type, attributes, before) ==
  [tag_type |-> tag_type, attributes |-> attributes, before |-> before]
Step(op, read, poll, ev, replay, resolved, prev, raised, threshold, store_reads, id) ==
  [op |-> op, read |-> read, poll |-> poll, ev |-> ev, replay |-> replay, resolved |-> resolved,
   prev |-> prev, raised |-> raised, threshold |-> threshold, store_reads |-> store_reads, id |-> id,
   args |-> NoArgs, msg |-> NoMessage, frame |-> <<>>, draw |-> "-"]
QuietStep(op) == Step(op, "-", "-", TagNone, FALSE, 0, 0, "none", FALSE, 0, <<>>)

\* MainLoop.__init__, with the table as some earlier run or import left it and
\* init_app having done a
InitWith(a) ==
  /\ loop_pc = "Idle"
  /\ do_loop = TRUE
  /\ error_count = 0
  /\ tag_event = TagUnbound
  /\ current_active_tags = {}
  /\ heap = <<>>
  /\ store \in InitialStores
  /\ device = [gone |-> FALSE, reads |-> 0]
  /\ calls = <<>>
  /\ published = <<>>
  /\ last = QuietStep("init")
  /\ dispatched = <<>>
  /\ written = <<>>
  /\ app = a
  /\ spotify = SpotifyClient_init
  /\ tags = <<>>
  /\ emitted = <<>>
  /\ interrupted = FALSE
  /\ last_event = [i \in Ids |-> "none"]
  /\ deleted = [i \in Ids |-> FALSE]
  /\ prev_ref = [i \in Ids |-> 0]

\* the program after init_app has returned
Init == InitWith(AppReady)

\* the program after the module __init__ was loaded, init_app not yet called
InitProcess == InitWith(AppLoaded)

\* MainLoop.run up to the first test of the while condition, once the thread
\* was started
Start ==
  /\ app.started
  /\ loop_pc = "Idle"
  /\ loop_pc' = "Polling"
  /\ calls' = << change_pad_color(ALL_PAD, get_idle_color) >>
  /\ written' = dev_write(calls')
  /\ published' = <<>>
  /\ dispatched' = <<>>
  /\ last' = QuietStep("start")
  /\ UNCHANGED << tags, emitted, app, spotify, do_loop, error_count, tag_event, current_active_tags, heap, store,
                  device, interrupted, last_event, deleted, prev_ref >>

\* stop_loop, were it to leave the flag set
stop_loop_leaves_flag == TRUE

\* MainLoop.stop_loop: the value it gives do_loop
stop_loop == FALSE

\* MainLoop.stop_loop, called from outside the loop
StopLoop ==
  /\ loop_pc \in {"Idle", "Polling"}
  /\ do_loop
  /\ do_loop' = stop_loop
  /\ calls' = <<>>
  /\ written' = dev_write(calls')
  /\ published' = <<>>
  /\ dispatched' = <<>>
  /\ last' = QuietStep("stop_loop")
  /\ UNCHANGED << tags, emitted, app, spotify, loop_pc, error_count, tag_event, current_active_tags, heap, store,
                  device, interrupted, last_event, deleted, prev_ref >>

\* the while condition of MainLoop.run found false
LoopExit ==
  /\ loop_pc = "Polling"
  /\ ~do_loop
  /\ loop_pc' = "Stopped"
  /\ calls' = <<>>
  /\ written' = dev_write(calls')
  /\ published' = <<>>
  /\ dispatched' = <<>>
  /\ last' = QuietStep("exit")
  /\ UNCHANGED << tags, emitted, app, spotify, do_loop, error_count, tag_event, current_active_tags, heap, store,
                  device, interrupted, last_event, deleted, prev_ref >>

PollName(out) == IF out.raised THEN "USBError" ELSE out.value.kind

\* one pass through the body of the while loop of MainLoop.run, get_tag_event
\* having done `out` and the plugin hooks doing `hooks`
Iteration(read, out, hooks) ==
  LET count == IF out.raised THEN error_count + 1 ELSE error_count
      threshold == out.raised /\ ~(count < USB_ERROR_THRESHOLD)
      ev == IF out.raised THEN tag_event ELSE out.value
      after == IF threshold THEN "Stopped" ELSE "Polling"
      res == get_nfc_tag_by_id(store, ev.identifier)
      ref == Len(heap) + 1
      active == update_active_tags(current_active_tags, ev, ref)
      d == sendMessage(1, ev, res.tag, hooks)
  IN
  /\ loop_pc = "Polling"
  /\ do_loop
  /\ error_count' = count
  /\ do_loop' = ~threshold
  /\ tag_event' = ev
  /\ interrupted' = (interrupted \/ (~out.raised /\ error_count > 0))
  /\ UNCHANGED << tags, emitted, app, spotify, store, deleted >>
  /\ CASE ev.kind = "unbound" ->
            \* `if tag_event is None` reads a name never assigned: UnboundLocalError
            /\ loop_pc' = "Dead"
            /\ calls' = <<>>
            /\ written' = dev_write(calls')
            /\ published' = <<>>
            /\ dispatched' = <<>>
            /\ last' = Step("iterate", read, PollName(out), TagNone, FALSE, 0, 0,
                            "UnboundLocalError", threshold, 0, <<>>)
            /\ UNCHANGED << current_active_tags, heap, last_event, prev_ref >>
       [] ev.kind = "none" ->
            /\ loop_pc' = after
            /\ calls' = <<>>
            /\ written' = dev_write(calls')
            /\ published' = <<>>
            /\ dispatched' = <<>>
            /\ last' = Step("iterate", read, PollName(out), TagNone, FALSE, 0, 0,
                            "none", threshold, 0, <<>>)
            /\ UNCHANGED << current_active_tags, heap, last_event, prev_ref >>
       [] ev.kind = "event" /\ res.raised ->
            /\ loop_pc' = (IF loop_catches("KeyError") THEN after ELSE "Dead")
            /\ calls' = (IF loop_catches("KeyError") THEN << error_flash(ev.pad_num) >> ELSE <<>>)
            /\ written' = dev_write(calls')
            /\ published' = <<>>
            /\ dispatched' = <<>>
            /\ last' = Step("iterate", read, PollName(out), ev, out.raised, 0,
                            prev_ref[ev.identifier], "resolve", threshold, 1, ev.identifier)
            /\ UNCHANGED << current_active_tags, heap, last_event, prev_ref >>
       [] ev.kind = "event" /\ ~res.raised ->
            /\ Len(heap) < MaxInstances
            /\ loop_pc' = (IF d.raised = "none" \/ loop_catches(d.raised) THEN after ELSE "Dead")
            /\ heap' = Append(heap, res.tag)
            /\ current_active_tags' = active
            /\ published' = << publish_tag_event(ev, ref, active) >>
            /\ dispatched' = d.log
            /\ calls' = on_handler_responses(d.responses)
                          \o (IF d.raised # "none" /\ loop_catches(d.raised)
                              THEN << error_flash(ev.pad_num) >> ELSE <<>>)
            /\ written' = dev_write(calls')
            /\ last' = Step("iterate", read, PollName(out), ev, out.raised, ref,
                            prev_ref[ev.identifier], IF d.raised # "none" THEN "publish" ELSE "none",
                            threshold, 1, ev.identifier)
            /\ last_event' = [last_event EXCEPT ![ev.identifier] =
                                IF ev.was_removed THEN "remove" ELSE "add"]
            /\ prev_ref' = [prev_ref EXCEPT ![ev.identifier] = ref]

\* the choices of hook outcomes that matter to an iteration: the hooks of the
\* plugins the event is filtered away from, or never reaches, do not run
HooksThatRun(out) ==
  LET ev == IF out.raised THEN tag_event ELSE out.value
      res == get_nfc_tag_by_id(store, ev.identifier)
  IN IF ev.kind # "event" \/ res.raised THEN {NoHooks}
     ELSE { h \in HookChoices :
              \A k \in 1..Len(Plugins) : ~isinstance(res.tag, Plugins[k].tag_class) => h[k] = "ok" }

\* an iteration of the loop over any driver that implements BaseDimensions
Iterate ==
  /\ \E out \in PollOutcomes : \E hooks \in HooksThatRun(out) : Iteration("-", out, hooks)
  /\ UNCHANGED device

\* an iteration of the loop over the real driver
IterateReal ==
  /\ \E rd \in (IF device.gone THEN {ReadError} ELSE DeviceReads) :
       \E hooks \in HooksThatRun(Dimensions_get_tag_event(rd)) :
         Iteration(rd.kind, Dimensions_get_tag_event(rd), hooks)
  /\ device' = [device EXCEPT !.reads = (@ + 1) % 2]

\* the pad is unplugged
Unplug ==
  /\ ~device.gone
  /\ device' = [device EXCEPT !.gone = TRUE]
  /\ calls' = <<>>
  /\ written' = dev_write(calls')
  /\ published' = <<>>
  /\ dispatched' = <<>>
  /\ last' = QuietStep("unplug")
  /\ UNCHANGED << tags, emitted, app, spotify, loop_pc, do_loop, error_count, tag_event, current_active_tags, heap, store,
                  interrupted, last_event, deleted, prev_ref >>

\* a call of NFCTagManager.delete_nfc_tag_by_id (TagNamespace.on_do_tag_delete
\* makes it on a web thread)
Delete ==
  \E id \in Ids \cup {NoneId} :
    LET r == delete_nfc_tag_by_id(store, id)
    IN
    /\ store' = r.store
    /\ deleted' = [i \in Ids |-> IF i = id /\ ~r.raised THEN TRUE ELSE deleted[i]]
    /\ prev_ref' = [i \in Ids |-> IF i = id THEN 0 ELSE prev_ref[i]]
    /\ calls' = <<>>
    /\ written' = dev_write(calls')
    /\ published' = <<>>
    /\ dispatched' = <<>>
    /\ last' = [Step("delete", "-", "-", TagNone, FALSE, 0, 0,
                     IF r.raised THEN "delete" ELSE "none", FALSE, 0, id)
                  EXCEPT !.args = Args("", AttrNone, store)]
    /\ UNCHANGED << tags, emitted, app, spotify, loop_pc, do_loop, error_count, tag_event, current_active_tags, heap,
                    device, interrupted, last_event >>

\* a call of NFCTagManager.create_nfc_tag (web/tags.py create_tag makes it on
\* a web thread)
Create ==
  \E id \in Ids \cup {NoneId}, tag_type \in CreateTypes, attributes \in CreateAttributes :
    LET r == create_nfc_tag(store, id, tag_type, attributes)
        ref == Len(heap) + 1
    IN
    /\ store' = r.store
    /\ deleted' = [i \in Ids |-> IF i = id /\ r.store # store THEN FALSE ELSE deleted[i]]
    /\ calls' = <<>>
    /\ written' = dev_write(calls')
    /\ published' = <<>>
    /\ dispatched' = <<>>
    /\ UNCHANGED << tags, emitted, app, spotify, loop_pc, do_loop, error_count, tag_event, current_active_tags,
                    device, interrupted, last_event, prev_ref >>
    /\ IF r.raised # "none"
       THEN /\ last' = [Step("create", "-", "-", TagNone, FALSE, 0, 0, r.raised, FALSE, 0, id)
                         EXCEPT !.args = Args(tag_type, attributes, store)]
            /\ UNCHANGED heap
       ELSE /\ Len(heap) < MaxInstances
            /\ heap' = Append(heap, r.tag)
            /\ last' = [Step("create", "-", "-", TagNone, FALSE, ref, 0, "none", FALSE, 0, id)
                         EXCEPT !.args = Args(tag_type, attributes, store)]

\* a call of NFCTagManager.get_nfc_tag_by_id
Resolve ==
  \E id \in Ids :
    LET res == get_nfc_tag_by_id(store, id)
        ref == Len(heap) + 1
    IN
    /\ calls' = <<>>
    /\ written' = dev_write(calls')
    /\ published' = <<>>
    /\ dispatched' = <<>>
    /\ UNCHANGED << tags, emitted, app, spotify, loop_pc, do_loop, error_count, tag_event, current_active_tags, store,
                    device, interrupted, last_event, deleted >>
    /\ IF res.raised
       THEN /\ last' = Step("resolve", "-", "-", TagNone, FALSE, 0, prev_ref[id],
                            "resolve", FALSE, 1, id)
            /\ UNCHANGED << heap, prev_ref >>
       ELSE /\ Len(heap) < MaxInstances
            /\ heap' = Append(heap, res.tag)
            /\ prev_ref' = [prev_ref EXCEPT ![id] = ref]
            /\ last' = Step("resolve", "-", "-", TagNone, FALSE, ref, prev_ref[id],
                            "none", FALSE, 1, id)

\* init_app: lego_thread.init_app(app), which opens the pad (Dimensions.__init__
\* raises when it is not found) and builds the NFCTagManager, whose __init__
\* imports the tag file when it is newer than the table
InitLoop ==
  /\ ~app.failed /\ app.pc \in DOMAIN init_app_steps
  /\ init_app_steps[app.pc].op = "lego_thread.init_app"
  /\ \E found \in BOOLEAN, file \in TagFiles, newer \in BOOLEAN :
       LET import == should_import_file(file, newer)
           r == IF import THEN NFCTagStore_populate_from_dict(store, file)
                ELSE [raised |-> FALSE, store |-> store]
           raised == IF ~found THEN "ValueError" ELSE IF r.raised THEN "IntegrityError" ELSE "none"
       IN
       /\ store' = (IF found THEN r.store ELSE store)
       /\ app' = [app EXCEPT !.pc = @ + 1, !.failed = (raised # "none"),
                              !.imported = IF raised # "none" THEN @
                                           ELSE IF import THEN "done" ELSE "skipped"]
       /\ calls' = <<>>
       /\ written' = (IF found THEN << INIT_MESSAGE >> ELSE <<>>)
       /\ last' = Step("init_loop", "-", "-", TagNone, FALSE, 0, 0, raised, FALSE, 0, <<>>)
  /\ published' = <<>>
  /\ dispatched' = <<>>
  /\ UNCHANGED << tags, emitted, spotify, loop_pc, do_loop, error_count, tag_event, current_active_tags, heap,
                  device, interrupted, last_event, deleted, prev_ref >>

\* init_app: plugin.init_app(app) for the next plugin of registered_plugins;
\* it subscribes the plugin's listeners and registers its tag class, and
\* TwinklyPlugin.init_app then raises ValueError when its configuration is
\* incomplete
InitPlugin ==
  /\ ~app.failed /\ app.pc \in DOMAIN init_app_steps
  /\ init_app_steps[app.pc].op = "plugin.init_app"
  /\ LET plugin == registered_plugins[init_app_steps[app.pc].plugin]
     IN \E configured \in (IF plugin.name = "twinkly_plugin" THEN BOOLEAN ELSE {TRUE}) :
          /\ app' = [app EXCEPT !.pc = @ + 1, !.failed = ~configured,
                                 !.listeners = Append(@, plugin.name),
                                 !.registry = register_tag_type(@, plugin.tag_class)]
          /\ last' = Step("init_plugin", "-", "-", TagNone, FALSE, 0, 0,
                          IF configured THEN "none" ELSE "ValueError", FALSE, 0, <<>>)
  /\ calls' = <<>>
  /\ written' = <<>>
  /\ published' = <<>>
  /\ dispatched' = <<>>
  /\ UNCHANGED << tags, emitted, spotify, loop_pc, do_loop, error_count, tag_event, current_active_tags, heap,
                  store, device, interrupted, last_event, deleted, prev_ref >>

\* init_app: lego_thread.start()
StartThread ==
  /\ ~app.failed /\ app.pc \in DOMAIN init_app_steps
  /\ init_app_steps[app.pc].op = "lego_thread.start"
  /\ app' = [app EXCEPT !.pc = @ + 1, !.started = TRUE]
  /\ calls' = <<>>
  /\ written' = <<>>
  /\ published' = <<>>
  /\ dispatched' = <<>>
  /\ last' = QuietStep("start_thread")
  /\ UNCHANGED << tags, emitted, spotify, loop_pc, do_loop, error_count, tag_event, current_active_tags, heap,
                  store, device, interrupted, last_event, deleted, prev_ref >>

\* web/spotify.py main, on a web thread, the session holding user (or none)
WebMain ==
  /\ \E user \in SpotifyUsers \cup {NoUser} :
       spotify' = (IF user = NoUser THEN spotify ELSE set_current_user_id(spotify, user))
  /\ calls' = <<>>
  /\ written' = <<>>
  /\ published' = <<>>
  /\ dispatched' = <<>>
  /\ last' = QuietStep("web_main")
  /\ UNCHANGED << tags, emitted, app, loop_pc, do_loop, error_count, tag_event, current_active_tags, heap,
                  store, device, interrupted, last_event, deleted, prev_ref >>

\* web/spotify.py login_callback, on a web thread: Spotify names the user the
\* code belongs to and hands out a token
WebLoginCallback ==
  /\ \E user \in SpotifyUsers \ {"local"}, token \in Tokens :
       spotify' = get_user_from_token(spotify, user, token)
  /\ calls' = <<>>
  /\ written' = <<>>
  /\ published' = <<>>
  /\ dispatched' = <<>>
  /\ last' = QuietStep("web_login_callback")
  /\ UNCHANGED << tags, emitted, app, loop_pc, do_loop, error_count, tag_event, current_active_tags, heap,
                  store, device, interrupted, last_event, deleted, prev_ref >>

\* web/spotify.py nowplaying, on a web thread
WebNowPlaying ==
  /\ \E refreshed \in BOOLEAN : spotify' = get_current_user_token(spotify, refreshed)
  /\ calls' = <<>>
  /\ written' = <<>>
  /\ published' = <<>>
  /\ dispatched' = <<>>
  /\ last' = QuietStep("web_nowplaying")
  /\ UNCHANGED << tags, emitted, app, loop_pc, do_loop, error_count, tag_event, current_active_tags, heap,
                  store, device, interrupted, last_event, deleted, prev_ref >>

\* the bus calling SpotifyClient.on_tag_added / on_tag_removed with a tag event
\* and a tag object
SpotifyEvents ==
  { [removed |-> r, pad |-> p, cls |-> c, tag |-> o] :
      r \in BOOLEAN, p \in Pads, c \in {SpotifyTag, WebhookTag}, o \in SpotifyObjects }
SpotifyListener ==
  /\ \E e \in SpotifyEvents :
       LET ev == DimensionsTagEvent(e.removed, e.pad, SpotifyIdentifier(e.tag))
           h == IF e.removed THEN SpotifyClient_on_tag_removed(spotify, ev, e.cls, e.tag)
                ELSE SpotifyClient_on_tag_added(spotify, ev, e.cls, e.tag)
       IN /\ spotify' = h.spotify
          /\ calls' = on_handler_responses(h.responses)
          /\ written' = dev_write(calls')
          /\ last' = [Step(IF e.removed THEN "spotify_removed" ELSE "spotify_added", "-", "-",
                           ev, FALSE, e.tag, 0, "none", FALSE, 0, ev.identifier)
                        EXCEPT !.msg = IF h.responses = <<>> THEN NoMessage ELSE h.responses[1],
                               !.args = Args(e.cls, AttrNone, <<>>)]
  /\ published' = <<>>
  /\ dispatched' = <<>>
  /\ UNCHANGED << tags, emitted, app, loop_pc, do_loop, error_count, tag_event, current_active_tags,
                  heap, store, device, interrupted, last_event, deleted, prev_ref >>

\* a poll of the simulated driver: one call of FakeDimensions.get_tag_event
FakePoll ==
  /\ Len(emitted) < MaxEmitted
  /\ \E d \in FakeDraws :
       /\ d.index < (IF Len(tags) > 0 THEN Len(tags) ELSE 1)
       /\ LET out == FakeDimensions_get_tag_event(tags, d)
          IN /\ tags' = out.tags
             /\ emitted' = IF out.value.kind = "event" THEN Append(emitted, out.value) ELSE emitted
             /\ last' = [Step("fake_poll", "-", out.value.kind, out.value, FALSE, 0, 0, "none",
                              FALSE, 0, out.value.identifier)
                           EXCEPT !.draw = DrawName(d)]
  /\ calls' = <<>>
  /\ written' = <<>>
  /\ published' = <<>>
  /\ dispatched' = <<>>
  /\ UNCHANGED << app, spotify, loop_pc, do_loop, error_count, tag_event, current_active_tags,
                  heap, store, device, interrupted, last_event, deleted, prev_ref >>

\* a call of Dimensions.get_tag_event on its own, dev.read doing rd
Decode ==
  /\ \E rd \in DecodeReads :
       LET out == Dimensions_get_tag_event(rd)
       IN last' = [Step("decode", rd.kind, PollName(out), out.value, FALSE, 0, 0, "none",
                        FALSE, 0, out.value.identifier) EXCEPT !.frame = rd.data]
  /\ calls' = <<>>
  /\ written' = <<>>
  /\ published' = <<>>
  /\ dispatched' = <<>>
  /\ UNCHANGED << tags, emitted, app, spotify, loop_pc, do_loop, error_count, tag_event, current_active_tags,
                  heap, store, device, interrupted, last_event, deleted, prev_ref >>

\* a call of one method of the driver: what it hands to dev.write
DriverCall(c) ==
  /\ calls' = << c >>
  /\ written' = dev_write(calls')
  /\ published' = <<>>
  /\ dispatched' = <<>>
  /\ last' = QuietStep(c.op)
  /\ UNCHANGED << tags, emitted, app, spotify, loop_pc, do_loop, error_count, tag_event, current_active_tags,
                  heap, store, device, interrupted, last_event, deleted, prev_ref >>

\* Dimensions.change_pad_color
ChangeCalls == { change_pad_color(pad, colour) : pad \in DriverPads, colour \in Colours }
ChangePadColor == \E c \in ChangeCalls : DriverCall(c)

\* Dimensions.fade_pad_color
FadeCalls ==
  { fade_pad_color(pad, pulse_time, pulse_count, colour) :
      pad \in DriverPads, pulse_time \in Ticks, pulse_count \in Ticks, colour \in Colours }
FadePadColor == \E c \in FadeCalls : DriverCall(c)

\* Dimensions.flash_pad_color
FlashCalls ==
  { flash_pad_color(pad, on_length, off_length, pulse_count, colour) :
      pad \in DriverPads, on_length \in Ticks, off_length \in Ticks, pulse_count \in Ticks,
      colour \in Colours }
FlashPadColor == \E c \in FlashCalls : DriverCall(c)

Next == Start \/ Iterate \/ LoopExit \/ StopLoop
Spec == Init /\ [][Next]_vars

NextReal == Start \/ IterateReal \/ LoopExit \/ StopLoop \/ Delete \/ Unplug
SpecReal == Init /\ [][NextReal]_vars

\* bus delivery of one tag.added / tag.removed message to the listener of one
\* plugin, and of the handler responses that listener publishes to MainLoop
AnyPlugins == { Plugins[k] : k \in 1..Len(Plugins) } \cup { UntypedPlugin }
TagClasses == { UnknownTag, LegacyTag, WebhookTag, SlackTag, TwinklyTag }
Dispatch ==
  \E p \in AnyPlugins, ev \in TagEvents, cls \in TagClasses, ext \in ExternalOutcomes :
    LET d == listener(p, ev, NFCTag(cls, BuiltinId, ev.identifier), ext)
    IN
    /\ dispatched' = << d >>
    /\ calls' = on_handler_responses(d.responses)
    /\ written' = dev_write(calls')
    /\ published' = <<>>
    /\ last' = Step("dispatch", "-", "-", ev, FALSE, 0, 0,
                    IF d.raised # "none" THEN "publish" ELSE "none", FALSE, 0, ev.identifier)
    /\ UNCHANGED << tags, emitted, app, spotify, loop_pc, do_loop, error_count, tag_event, current_active_tags, heap, store,
                    device, interrupted, last_event, deleted, prev_ref >>

\* bus delivery of one handler response to the handler MainLoop subscribed for
\* its topic
ResponseTopics == { "handler_response.add.error", "handler_response.add.success",
                    "handler_response.remove.success", "handler_response.remove.error" }
HandlerResponse ==
  \E topic \in ResponseTopics, ev \in TagEvents, color \in Colours \cup {NoColor} :
    LET m == Message(topic, ev, IF topic = "handler_response.add.success" THEN color ELSE NoColor)
    IN
    /\ calls' = on_handler_response(m)
    /\ written' = dev_write(calls')
    /\ published' = <<>>
    /\ dispatched' = <<>>
    /\ last' = [Step("handler_response", "-", "-", ev, FALSE, 0, 0, "none", FALSE, 0,
                      ev.identifier) EXCEPT !.msg = m]
    /\ UNCHANGED << tags, emitted, app, spotify, loop_pc, do_loop, error_count, tag_event, current_active_tags,
                    heap, store, device, interrupted, last_event, deleted, prev_ref >>

NextDispatch == Dispatch \/ HandlerResponse
SpecDispatch == Init /\ [][NextDispatch]_vars

\* the driver, called with any parameters
NextDriver == ChangePadColor \/ FadePadColor \/ FlashPadColor
SpecDriver == Init /\ [][NextDriver]_vars

\* the simulated driver, polled again and again
NextFake == FakePoll
SpecFake == Init /\ [][NextFake]_vars

\* the listeners of the Spotify client, called with any sequence of events
NextSpotify == SpotifyListener
SpecSpotify == Init /\ [][NextSpotify]_vars

\* get_tag_event of the real driver, called with any frame
NextDecode == Decode
SpecDecode == Init /\ [][NextDecode]_vars

\* init_app followed by the loop it starts
NextInit == InitLoop \/ InitPlugin \/ StartThread \/ Start \/ Iterate \/ LoopExit \/ StopLoop
SpecInit == InitProcess /\ [][NextInit]_vars

\* the loop next to the web threads that serve web/spotify.py
NextWeb == Start \/ Iterate \/ LoopExit \/ StopLoop \/ WebMain \/ WebLoginCallback \/ WebNowPlaying
SpecWeb == Init /\ [][NextWeb]_vars

NextManager == Resolve \/ Delete \/ Create
SpecManager == Init /\ [][NextManager]_vars

\* the loop over the real driver with nothing else going on but the pad being
\* unplugged and stop_loop being called; the loop's thread is scheduled again
\* and again for as long as it can run
NextRealLoop == Start \/ IterateReal \/ LoopExit \/ StopLoop \/ Unplug
\* the states in which the loop over the real driver can make a pass: the
\* while condition holds and some read leads to a pass within the bounds
IterateRealEnabled ==
  /\ loop_pc = "Polling"
  /\ do_loop
  /\ \E rd \in (IF device.gone THEN {ReadError} ELSE DeviceReads) :
       LET out == Dimensions_get_tag_event(rd)
           ev == IF out.raised THEN tag_event ELSE out.value
       IN (ev.kind = "event" /\ ~get_nfc_tag_by_id(store, ev.identifier).raised)
            => Len(heap) < MaxInstances

\* IterateRealEnabled is ENABLED <<IterateReal>>_vars, state by state
IterateRealEnabledIsExact == (ENABLED <<IterateReal>>_vars) <=> IterateRealEnabled

\* weak fairness of each step of the loop thread; that of IterateReal is
\* written out, WF_vars(A) being []<>~(ENABLED <<A>>_vars) \/ []<><<A>>_vars
SpecRealFair ==
  /\ Init /\ [][NextRealLoop]_vars
  /\ WF_vars(Start)
  /\ WF_vars(LoopExit)
  /\ ([]<>~IterateRealEnabled \/ []<><<IterateReal>>_vars)


\* ===================================================================== claims
IterationDone == last.op = "iterate"
\* the last step called get_nfc_tag_by_id(last.id)
Resolved == last.op \in {"iterate", "resolve"} /\ last.id \in Ids

\* C1: counting from error_count = 0, the loop is still Polling after each of the
\* first USB_ERROR_THRESHOLD - 1 consecutive USBErrors of get_tag_event and is
\* Stopped after the USB_ERROR_THRESHOLD-th; no earlier fault stops or kills it,
\* a fault on the very first poll included.
C1_StopsExactlyOnThresholdFault ==
  (IterationDone /\ last.poll = "USBError" /\ ~interrupted) =>
     loop_pc = (IF error_count < USB_ERROR_THRESHOLD THEN "Polling" ELSE "Stopped")

\* C2: after a poll that returned a tag event, error_count is 0 and the loop is Polling.
C2_EventResetsErrorCount ==
  (IterationDone /\ last.poll = "event") => (error_count = 0 /\ loop_pc = "Polling")

\* C3: once the pad is gone, so that every dev.read fails with a hard error, the
\* loop over the real driver eventually is Stopped.
C3_GoneDeviceStopsLoop ==
  (device.gone /\ loop_pc = "Polling") ~> (loop_pc = "Stopped")

\* C4: Dimensions.get_tag_event returns None for a read timeout, and raises to its
\* caller for any other read error: a hard fault is never reported as "no event".
C4_HardFaultPropagates ==
  IterationDone =>
     /\ (last.read = "USBTimeoutError" => last.poll = "none")
     /\ (last.read = "USBError" => last.poll = "USBError")

\* C5: when resolving the identifier of the event being processed raises, the
\* loop makes exactly one driver call, an error-colour flash of that event's pad,
\* and the failure neither stops nor kills the loop: it is Polling afterwards,
\* unless the poll of that same iteration was the threshold fault.
C5_ResolveErrorFlashesThatPad ==
  (IterationDone /\ last.raised = "resolve") =>
     /\ calls = << flash_pad_color(last.ev.pad_num, 8, 8, 4, get_error_color) >>
     /\ loop_pc = (IF last.threshold THEN "Stopped" ELSE "Polling")
     /\ do_loop = ~last.threshold

C5_Witness ==
  /\ IterationDone /\ last.raised = "resolve" /\ last.poll = "event"
  /\ last.ev.pad_num = 2
  /\ calls = << flash_pad_color(2, 8, 8, 4, RED) >>
  /\ loop_pc = "Polling"

\* C6: each tag event that was polled and resolved is published exactly once: by
\* the iteration that polled it, as one message on tag.removed if its removed
\* flag is set and on tag.added otherwise, carrying that event and the tag
\* resolved for it, after current_active_tags was updated; no other iteration
\* publishes.
C6_OnePublishPerPolledEvent ==
  /\ (IterationDone /\ last.poll = "event" /\ last.resolved # 0) =>
        /\ Len(published) = 1
        /\ published[1].topic = (IF last.ev.was_removed THEN "tag.removed" ELSE "tag.added")
        /\ published[1].tag_event = last.ev
        /\ published[1].nfc_tag = last.resolved
        /\ heap[last.resolved].for_id = last.ev.identifier
        /\ published[1].active_tags = current_active_tags
        /\ (last.resolved \in current_active_tags) = ~last.ev.was_removed
  /\ (published # <<>>) => (IterationDone /\ last.poll = "event")

\* C7: current_active_tags holds tags of exactly the identifiers whose last
\* processed event was an add.
C7_ActiveTagsAreLastAdded ==
  { heap[r].for_id : r \in current_active_tags } = { i \in Ids : last_event[i] = "add" }

\* C8: current_active_tags never holds two entries for one identifier (and a
\* removal of an identifier without entry changes nothing and raises nothing).
C8_OneEntryPerIdentifier ==
  /\ \A i \in Ids : Cardinality({ r \in current_active_tags : heap[r].for_id = i }) <= 1
  /\ (IterationDone /\ last.resolved # 0 /\ last.ev.was_removed) => last.raised # "resolve"

\* C9: a resolve of an identifier that was resolved before, with no delete of it
\* in between, returns the very same tag object and does not query the table.
C9_ResolveReturnsCachedInstance ==
  (Resolved /\ last.resolved # 0 /\ last.prev # 0) =>
     (last.resolved = last.prev /\ last.store_reads = 0)

\* C10: once the record of an identifier has been deleted, a resolve of that
\* identifier returns the UnknownTag placeholder, not a tag built from the record.
C10_ResolveAfterDelete ==
  (Resolved /\ deleted[last.id]) =>
     (last.resolved # 0 /\ heap[last.resolved].cls = UnknownTag)

C10_Witness ==
  /\ Resolved /\ deleted[last.id]
  /\ last.resolved = 2 /\ heap[2].cls = UnknownTag
  /\ heap[1].cls = WebhookTag /\ heap[1].for_id = last.id

\* the last step called create_nfc_tag(last.id, last.args.tag_type, ..., last.args.attributes)
CreateDone == last.op = "create"

C13_CreateRejectsBadArguments ==
  (CreateDone /\ (\/ last.id = NoneId
                  \/ last.args.tag_type = NoneType
                  \/ last.args.tag_type \notin DOMAIN TAG_REGISTRY_MAP)) =>
     /\ last.raised = "ArgumentError"
     /\ last.resolved = 0
     /\ store = last.args.before

C13_Witness ==
  /\ CreateDone /\ last.id \in Ids /\ ~last.args.before[last.id].present
  /\ last.args.tag_type = "spotify" /\ last.args.attributes = Attributes("json", {"url"})
  /\ last.raised = "ArgumentError" /\ store = last.args.before

\* C14: create_nfc_tag called with an id that has no record yet, a registered
\* tag type and an attribute dict holding every key the type requires writes
\* exactly that record and returns a tag of the registered class, and a
\* get_nfc_tag_by_id of the id afterwards returns a tag of that class.
C14_CreatePersistsAndReturnsTag ==
  (/\ CreateDone /\ last.id \in Ids
   /\ last.args.tag_type \in DOMAIN TAG_REGISTRY_MAP
   /\ last.args.attributes.form = "dict"
   /\ required_attributes(TAG_REGISTRY_MAP[last.args.tag_type]) \subseteq last.args.attributes.keys
   /\ ~last.args.before[last.id].present) =>
     /\ last.raised = "none"
     /\ store = [last.args.before EXCEPT
                   ![last.id] = Record(last.args.tag_type, last.args.attributes.keys)]
     /\ last.resolved # 0
     /\ heap[last.resolved].cls = TAG_REGISTRY_MAP[last.args.tag_type]
     /\ get_nfc_tag_by_id(store, last.id) =
          Built(NFCTag(TAG_REGISTRY_MAP[last.args.tag_type], BuiltinId, last.id))

\* C15: delete_nfc_tag_by_id(None) raises nothing and leaves the table as it was.
C15_DeleteNoneIsNoOp ==
  (last.op = "delete" /\ last.id = NoneId) =>
     (last.raised = "none" /\ store = last.args.before)

C15_Witness ==
  /\ last.op = "delete" /\ last.id = NoneId /\ last.raised = "none"
  /\ \E i \in Ids : store[i].present
  /\ store = last.args.before

\* the plugin a log entry of dispatched is about, and the response messages a
\* plugin publishes for the event of the last step
PluginNamed(n) == CHOOSE p \in AnyPlugins : p.name = n
ErrorResponse ==
  Message(IF last.ev.was_removed THEN "handler_response.remove.error"
          ELSE "handler_response.add.error", last.ev, NoColor)
SuccessResponse(p) ==
  IF last.ev.was_removed THEN Message("handler_response.remove.success", last.ev, NoColor)
  ELSE Message("handler_response.add.success", last.ev, p.success_pad_color)

\* C16: a plugin that declares a tag class neither runs its hook nor publishes a
\* handler response (nor raises) for a tag event whose tag is not an instance
\* of that class.
C16_FilteredPluginStaysSilent ==
  \A k \in DOMAIN dispatched :
    LET e == dispatched[k]
        p == PluginNamed(e.plugin)
    IN (p.tag_class # NoClass /\ e.tag_cls # p.tag_class) =>
         (e.hook = "-" /\ e.responses = <<>> /\ e.raised = "none")

C16_Witness ==
  /\ IterationDone /\ last.resolved # 0 /\ heap[last.resolved].cls = UnknownTag
  /\ Len(dispatched) = Len(Plugins)
  /\ dispatched[1].plugin = "unregistered_tag_plugin" /\ dispatched[1].hook = "ok"
  /\ dispatched[3].plugin = "webhook_plugin" /\ dispatched[3].tag_cls = UnknownTag
  /\ dispatched[3].hook = "-" /\ dispatched[3].responses = <<>>

\* C17: a plugin that declares no tag class has its hook run for every tag event,
\* whatever the class of the tag, and publishes the matching success response
\* when the hook returns.
C17_UntypedPluginHandlesEveryTag ==
  \A k \in DOMAIN dispatched :
    LET e == dispatched[k]
        p == PluginNamed(e.plugin)
    IN (p.tag_class = NoClass) =>
         /\ e.hook # "-"
         /\ (e.hook = "ok") => (e.responses = << SuccessResponse(p) >> /\ e.raised = "none")

C19_WebhookPostFailurePublishesError ==
  \A k \in DOMAIN dispatched :
    LET e == dispatched[k] IN
    (/\ e.plugin = "webhook_plugin" /\ e.tag_cls = WebhookTag /\ ~last.ev.was_removed
     /\ e.ext \in {"fails", "raises"}) =>
       e.responses = << Message("handler_response.add.error", last.ev, NoColor) >>

\* C20: an exception other than NFCTagOperationError that leaves a plugin hook
\* or wrapper while the loop publishes a tag event does not end the loop: the
\* loop is Polling with do_loop set afterwards, unless the poll of that same
\* iteration was the threshold fault.
C20_HookExceptionKeepsLoopPolling ==
  (IterationDone /\ last.raised = "publish") =>
     /\ loop_pc = (IF last.threshold THEN "Stopped" ELSE "Polling")
     /\ do_loop = ~last.threshold

C20_Witness ==
  /\ IterationDone /\ last.raised = "publish" /\ last.poll = "event"
  /\ \E k \in DOMAIN dispatched : dispatched[k].raised = "AttributeError"
  /\ loop_pc = "Polling" /\ do_loop

\* C21: each tag.added / tag.removed message the loop publishes reaches the
\* listener of every subscribed plugin, whatever the listeners called before it
\* did with it (filtered it away, succeeded, raised NFCTagOperationError or
\* raised anything else).
C21_EveryListenerGetsEveryEvent ==
  (IterationDone /\ published # <<>>) =>
     \A k \in 1..Len(Plugins) :
       \E j \in DOMAIN dispatched : dispatched[j].plugin = Plugins[k].name

\* the processing of the event of the last iteration failed: its identifier
\* did not resolve, or a hook raised
ProcessingFailed ==
  /\ IterationDone /\ last.ev.kind = "event"
  /\ \/ last.raised \in {"resolve", "publish"}
     \/ \E k \in DOMAIN dispatched : dispatched[k].hook \notin {"-", "ok"}

\* C22: whenever the processing of a tag event fails (the identifier does not
\* resolve, a hook raises NFCTagOperationError, or a hook raises anything else)
\* the iteration sends an error-colour flash to the pad of that event, as a
\* driver call and as the message written to the pad, and flashes no other pad.
C22_FailureFlashesThatPadOnly ==
  ProcessingFailed =>
     /\ \E k \in DOMAIN calls :
          /\ calls[k] = flash_pad_color(last.ev.pad_num, 8, 8, 4, get_error_color)
          /\ SubSeq(written[k], 1, 11) =
               << 85, 9, 195, 3, last.ev.pad_num, 8, 8, 4 >> \o get_error_color
     /\ \A k \in DOMAIN calls :
          calls[k].op = "flash_pad_color" => calls[k].pad = last.ev.pad_num

C22_Witness ==
  /\ ProcessingFailed /\ last.raised = "publish" /\ last.ev.pad_num = 2 /\ last.ev.was_removed
  /\ dispatched[Len(dispatched)].plugin = "webhook_plugin"
  /\ dispatched[Len(dispatched)].hook = "AttributeError"
  /\ calls = << flash_pad_color(2, 8, 8, 4, RED) >>
  /\ written[1][5] = 2
  /\ loop_pc = "Polling"

\* C23: MainLoop, given handler_response.add.success with a colour, makes one
\* driver call, a fade of the pad of the event to that colour, and one message
\* is written for it; given no colour it makes no driver call and nothing is
\* written.
C23_AddSuccessFadesOnlyWithColour ==
  (last.op = "handler_response" /\ last.msg.topic = "handler_response.add.success") =>
     IF last.msg.color # NoColor
     THEN /\ calls = << fade_pad_color(last.msg.tag_event.pad_num, 10, 1, last.msg.color) >>
          /\ Len(written) = 1
          /\ SubSeq(written[1], 1, 10) =
               << 85, 8, 194, 15, last.msg.tag_event.pad_num, 10, 1 >> \o last.msg.color
     ELSE calls = <<>> /\ written = <<>>

C23_Witness ==
  /\ last.op = "handler_response" /\ last.msg.topic = "handler_response.add.success"
  /\ last.msg.color = NoColor /\ last.msg.tag_event.pad_num = 1
  /\ calls = <<>> /\ written = <<>>

\* the handler responses the plugins published in the last iteration
RemoveSuccesses ==
  { m \in UNION { { dispatched[k].responses[j] : j \in DOMAIN dispatched[k].responses } :
                    k \in DOMAIN dispatched } :
      m.topic = "handler_response.remove.success" }

\* C24: whenever a plugin published handler_response.remove.success for a tag
\* event in an iteration, the iteration made a fade call for the pad of that
\* event to the idle colour (pulse time 10, one pulse), the message written for
\* it names that pad and the idle colour, and no fade names another pad.
C24_RemoveSuccessFadesThatPadToIdle ==
  \A m \in RemoveSuccesses :
     /\ \E k \in DOMAIN calls :
          /\ calls[k] = fade_pad_color(m.tag_event.pad_num, 10, 1, get_idle_color)
          /\ SubSeq(written[k], 1, 10) =
               << 85, 8, 194, 15, m.tag_event.pad_num, 10, 1 >> \o get_idle_color
     /\ \A k \in DOMAIN calls :
          calls[k].op = "fade_pad_color" =>
             calls[k].pad = m.tag_event.pad_num /\ calls[k].pad # ALL_PAD

C24_Witness ==
  /\ IterationDone /\ last.ev.was_removed /\ last.ev.pad_num = 2
  /\ \E m \in RemoveSuccesses : m.tag_event = last.ev
  /\ calls = << fade_pad_color(2, 10, 1, DIM) >>
  /\ written[1][5] = 2

\* C25: once stop_loop has been called the loop eventually is Stopped; no pass
\* through the loop body begins in a state where do_loop is false, so no poll
\* is made after the flag was found cleared; and the call of stop_loop itself
\* changes nothing of the loop but the flag: the position of the loop, the
\* event it holds and its active tags are as the last pass left them.
C25_StopReachesStopped ==
  /\ (last.op = "stop_loop") ~> (loop_pc = "Stopped")
  /\ [][ /\ (~do_loop => last'.op # "iterate")
         /\ (loop_pc = "Stopped" => loop_pc' = "Stopped")
         /\ (last'.op = "stop_loop" =>
               /\ ~do_loop'
               /\ << loop_pc, tag_event, current_active_tags, error_count, heap >>' =
                    << loop_pc, tag_event, current_active_tags, error_count, heap >>) ]_vars

C25_Witness ==
  /\ loop_pc = "Stopped" /\ last.op = "exit" /\ ~do_loop
  /\ error_count = 0 /\ heap # <<>> /\ current_active_tags # {}

\* init_app has done all of its registration work: the tag file was imported
\* or found not to need it, and every plugin of registered_plugins has its
\* listeners subscribed and its tag class in the registry
InitComplete ==
  /\ app.imported # "pending"
  /\ \A k \in 1..Len(registered_plugins) :
       /\ \E j \in DOMAIN app.listeners : app.listeners[j] = registered_plugins[k].name
       /\ registered_plugins[k].tag_class \in app.registry

\* C26: whenever the loop thread has left Idle (so before its first poll, and
\* at every poll) every plugin has subscribed its listeners and registered its
\* tag class and the import of the tag file is over; and from the moment the
\* loop thread is started neither the registry nor the subscriber list changes.
C26_RegistrationPrecedesPolling ==
  /\ []((loop_pc # "Idle" \/ IterationDone) => InitComplete)
  /\ [][app.started => (app'.registry = app.registry /\ app'.listeners = app.listeners)]_vars

C26_Witness ==
  /\ IterationDone /\ last.poll = "event" /\ InitComplete
  /\ app.imported = "done" /\ app.started /\ ~app.failed
  /\ SpotifyTag \in app.registry
  /\ Len(app.listeners) = Len(registered_plugins) + 1

\* the listener called k-th in the last iteration was given a tag of the class
\* of its plugin
ListenerConcerned(k) ==
  \E j \in 1..Len(Plugins) :
     Plugins[j].name = dispatched[k].plugin /\ dispatched[k].tag_cls = Plugins[j].tag_class

\* C27: everything an iteration does concerns the one event it polled (or, after
\* a failed poll, holds): the message published, every handler response of
\* every listener, and every driver call are for that event and its pad; every
\* listener concerned by the tag has finished within the iteration, with a
\* handler response published or an exception raised; and the driver call of
\* every handler response has been made before the iteration ends. An
\* iteration without an event publishes nothing and makes no driver call.
C27_OneEventAtATime ==
  IterationDone =>
     IF last.ev.kind # "event"
     THEN calls = <<>> /\ dispatched = <<>> /\ published = <<>>
     ELSE /\ Len(published) <= 1
          /\ \A i \in DOMAIN published : published[i].tag_event = last.ev
          /\ \A k \in DOMAIN dispatched :
               /\ ListenerConcerned(k) =>
                    (dispatched[k].responses # <<>> \/ dispatched[k].raised # "none")
               /\ \A j \in DOMAIN dispatched[k].responses :
                    LET m == dispatched[k].responses[j]
                    IN /\ m.tag_event = last.ev
                       /\ on_handler_response(m) # <<>> =>
                            \E i \in DOMAIN calls : calls[i] = on_handler_response(m)[1]
          /\ \A i \in DOMAIN calls : calls[i].pad = last.ev.pad_num
          /\ Len(written) = Len(calls)

C27_Witness ==
  /\ IterationDone /\ last.poll = "event" /\ Len(heap) = 2
  /\ heap[1].for_id # heap[2].for_id
  /\ \E k \in DOMAIN dispatched :
       ListenerConcerned(k) /\ dispatched[k].responses # <<>>
  /\ Len(calls) = 1 /\ calls[1].op = "fade_pad_color" /\ calls[1].pad = last.ev.pad_num

\* C28: while the loop runs, every step that changes current_active_tags or the
\* state of the Spotify client (current_user_id, user_token_map, active_tag,
\* paused_tag) is a pass of the loop, never a request handler on a web thread.
C28_OnlyWorkerMutates ==
  [][ (loop_pc = "Polling" /\ (spotify' # spotify \/ current_active_tags' # current_active_tags))
        => last'.op = "iterate" ]_vars

\* C29: every flash_pad_color call writes a message whose first 11 bytes are
\* 0x55, 0x09, 0xc3, 0x03, pad, on_length, off_length, pulse_count and the R, G
\* and B channels of the colour, in that order.
C29_FlashSendsRGB ==
  \A k \in DOMAIN calls :
     calls[k].op = "flash_pad_color" =>
        SubSeq(written[k], 1, 11) =
          << 85, 9, 195, 3, calls[k].pad, calls[k].t1, calls[k].t2, calls[k].pulse_count >>
            \o calls[k].colour

\* the sum of the bytes of s
RECURSIVE SumBytes(_)
SumBytes(s) == IF s = <<>> THEN 0 ELSE Head(s) + SumBytes(Tail(s))

\* the number of bytes each method of the driver hands to send_command
HeaderLen(op) ==
  CASE op = "change_pad_color" -> 8
    [] op = "fade_pad_color" -> 10
    [] op = "flash_pad_color" -> 11

\* C30: every message written for a change, fade or flash call is 32 bytes
\* long; the bytes the method handed to send_command come first (for change and
\* fade: 0x55 0x06 0xc0 0x02 pad R G B and 0x55 0x08 0xc2 0x0f pad pulse_time
\* pulse_count R G B; for flash the 11 bytes that begin 0x55 0x09 0xc3 0x03),
\* the next byte is the sum of those bytes modulo 256, and every byte after it
\* is zero.
C30_MessageIs32BytesWithChecksum ==
  \A k \in DOMAIN written :
     LET n == HeaderLen(calls[k].op)
         c == calls[k]
     IN /\ Len(written[k]) = 32
        /\ written[k][n + 1] = SumBytes(SubSeq(written[k], 1, n)) % 256
        /\ \A j \in (n + 2)..32 : written[k][j] = 0
        /\ c.op = "change_pad_color" =>
              SubSeq(written[k], 1, n) = << 85, 6, 192, 2, c.pad >> \o c.colour
        /\ c.op = "fade_pad_color" =>
              SubSeq(written[k], 1, n) = << 85, 8, 194, 15, c.pad, c.t1, c.pulse_count >> \o c.colour
        /\ c.op = "flash_pad_color" =>
              SubSeq(written[k], 1, 8) = << 85, 9, 195, 3, c.pad, c.t1, c.t2, c.pulse_count >>

C30_Witness ==
  /\ last.op = "flash_pad_color"
  /\ calls = << flash_pad_color(3, 255, 255, 255, PINK) >>
  /\ Len(written[1]) = 32
  /\ written[1][12] = 30
  /\ written[1][13] = 0 /\ written[1][32] = 0

\* C31: get_tag_event, dev.read having returned a 32-byte frame, returns None
\* when byte 0 of the frame is not 0x56, and otherwise an event whose pad_num
\* is byte 2 and whose was_removed is true exactly when byte 5 is not zero.
C31_DecodeByMarkerPadAndRemoval ==
  (last.op = "decode" /\ last.read = "data" /\ Len(last.frame) = FRAME_LEN) =>
     IF last.frame[1] # 86
     THEN last.poll = "none" /\ last.ev = TagNone
     ELSE /\ last.poll = "event" /\ last.ev.kind = "event"
          /\ last.ev.pad_num = last.frame[3]
          /\ last.ev.was_removed = (last.frame[6] # 0)

C31_Witness ==
  /\ last.op = "decode" /\ last.read = "data" /\ Len(last.frame) = FRAME_LEN
  /\ last.frame[1] = 86 /\ last.frame[3] = 3 /\ last.frame[6] = 255
  /\ last.ev.kind = "event" /\ last.ev.pad_num = 3 /\ last.ev.was_removed

\* the hex digits s with one run of six zeros at its start, if any, removed
strip_leading_000000(s) ==
  IF Len(s) >= 6 /\ SubSeq(s, 1, 6) = SixZeros THEN SubSeq(s, 7, Len(s)) ELSE s

\* C32: the identifier of a decoded event is the hex encoding of bytes 6..12 of
\* the frame with only a run of six zeros at its start removed, the digits
\* after the start being left as they are; and removing runs of six zeros from
\* the identifier again changes nothing.
C32_OnlyLeadingZerosStripped ==
  (last.op = "decode" /\ last.poll = "event") =>
     /\ last.ev.identifier = strip_leading_000000(hexlify(SubSeq(last.frame, 7, 13)))
     /\ replace_000000(last.ev.identifier) = last.ev.identifier

\* C33: the import NFCTagManager.__init__ makes when the tag file is newer than
\* the table never fails, and after it the table holds a row for every
\* identifier of the file and for no other identifier.
C33_ImportReplacesStore ==
  last.op = "init_loop" =>
     /\ last.raised # "IntegrityError"
     /\ app.imported = "done" =>
          \E file \in TagFiles \ {NoFile} :
             \A i \in Ids : store[i].present <=> file[i].present

\* C34: an iteration whose call of get_tag_event raised USBError publishes
\* nothing, calls no listener, makes no driver call and processes no event, the
\* event of an earlier iteration included.
C34_FaultIterationDoesNothing ==
  (IterationDone /\ last.poll = "USBError") =>
     /\ published = <<>> /\ dispatched = <<>> /\ calls = <<>> /\ written = <<>>
     /\ ~last.replay /\ last.ev.kind # "event"

\* the row of identifier id cannot be made into a tag: it names a registered
\* type and lacks an attribute that type requires
MalformedRecord(id) ==
  /\ store[id].present
  /\ store[id].type \in DOMAIN TAG_REGISTRY_MAP
  /\ ~(required_attributes(TAG_REGISTRY_MAP[store[id].type]) \subseteq store[id].attr)

\* C35: an iteration whose event names an identifier that cannot be resolved
\* ends with the resolution having raised; and an iteration whose resolution
\* raised publishes no tag.added / tag.removed message, calls no listener and
\* leaves current_active_tags as it was.
C35_FailedResolveChangesNothing ==
  /\ []((IterationDone /\ last.ev.kind = "event" /\ MalformedRecord(last.ev.identifier))
          => last.raised = "resolve")
  /\ []((IterationDone /\ last.raised = "resolve") => (published = <<>> /\ dispatched = <<>>))
  /\ [][(last'.op = "iterate" /\ last'.raised = "resolve")
          => current_active_tags' = current_active_tags]_vars

C35_Witness ==
  /\ IterationDone /\ last.raised = "resolve" /\ last.poll = "event"
  /\ MalformedRecord(last.ev.identifier)
  /\ current_active_tags # {} /\ published = <<>> /\ dispatched = <<>>
  /\ calls = << error_flash(last.ev.pad_num) >>

\* C36: the tag get_nfc_tag_by_id or create_nfc_tag returns for an identifier,
\* whether the table holds a row for it or not, has that identifier in its
\* identifier field.
C36_TagCarriesItsIdentifier ==
  (last.op \in {"resolve", "create"} /\ last.resolved # 0) =>
     heap[last.resolved].identifier = last.id

\* C37: a call of create_nfc_tag that raises, whatever it raises, leaves the
\* table as it was before the call.
C37_FailedCreateLeavesStore ==
  (last.op = "create" /\ last.raised # "none") => store = last.args.before

\* C38: delete_nfc_tag_by_id called for an identifier the table holds no row
\* for (never created, or deleted by an earlier call) raises nothing and leaves
\* the table as it was.
C38_DeleteIsIdempotent ==
  (last.op = "delete" /\ last.id \in Ids /\ ~last.args.before[last.id].present) =>
     (last.raised = "none" /\ store = last.args.before)

\* C39: a removal on the circle pad of a Spotify tag that is not the active tag
\* (another identifier is active, or none) makes no pause call and leaves
\* active_tag and paused_tag as they were; the removal of the active tag makes
\* the pause call and records the tag as paused_tag.
C39_OnlyActiveTagPauses ==
  [][ (last'.op = "spotify_removed" /\ last'.args.tag_type = SpotifyTag
         /\ last'.ev.pad_num = CIRCLE_PAD) =>
        IF spotify.active_tag # 0
           /\ SpotifyIdentifier(spotify.active_tag) = last'.ev.identifier
        THEN /\ spotify'.playback = << "pause" >>
             /\ spotify'.paused_tag = spotify.active_tag /\ spotify'.active_tag = 0
        ELSE /\ spotify'.playback = <<>>
             /\ spotify'.active_tag = spotify.active_tag
             /\ spotify'.paused_tag = spotify.paused_tag ]_vars

\* the number of adds of the pair key in the events h whose removal is not in h
RECURSIVE Outstanding(_, _)
Outstanding(h, key) ==
  IF h = <<>> THEN 0
  ELSE LET e == h[Len(h)]
       IN Outstanding(SubSeq(h, 1, Len(h) - 1), key)
          + (IF << e.identifier, e.pad_num >> # key THEN 0 ELSE IF e.was_removed THEN -1 ELSE 1)
FakeKeys == Ids \X (1..3)

\* C40: every removal the simulated driver returns names the identifier and
\* pad of an add it returned before and has not removed since; the pairs it
\* holds are exactly the adds not yet removed; and a poll that draws a removal
\* while no add is outstanding returns no event.
C40_RemovalsNameOutstandingAdds ==
  /\ [](\A k \in 1..Len(emitted) :
          emitted[k].was_removed =>
            Outstanding(SubSeq(emitted, 1, k - 1),
                        << emitted[k].identifier, emitted[k].pad_num >>) > 0)
  /\ [](\A key \in FakeKeys :
          Outstanding(emitted, key) = Cardinality({ i \in DOMAIN tags : tags[i] = key }))
  /\ [][ (last'.op = "fake_poll" /\ last'.draw = "remove"
           /\ \A key \in FakeKeys : Outstanding(emitted, key) = 0) =>
          (last'.poll = "none" /\ emitted' = emitted) ]_vars
C40_Witness ==
  /\ last.op = "fake_poll" /\ last.draw = "remove" /\ last.poll = "event"
  /\ Len(emitted) = 4 /\ ~emitted[2].was_removed /\ emitted[3].was_removed
  /\ emitted[1].identifier = emitted[2].identifier /\ emitted[1].pad_num = emitted[2].pad_num

====
